---- MODULE Spec2Model ----
(***************************************************************************)
(* Relay core of the cross-chain bridge listener (src/script.py):          *)
(*   StateDB                 - the file-backed replay store                *)
(*   EventProcessor          - replay check and validation of one event    *)
(*   TransactionBroadcaster  - submission of the mint and its receipt      *)
(*   BridgeContractListener  - the polling loop of the worker thread       *)
(* together with the environment the code talks to: the source chain and   *)
(* its event filter, the destination chain, the state file, and the        *)
(* operating system that can kill and restart the process.                 *)
(***************************************************************************)
EXTENDS Integers, Sequences, FiniteSets, TLC

\* ---------------------------------------------------------------- bounds
\* Number of TokensDeposited logs the source chain emits in one behaviour.
MaxLogs == 2
\* Highest source-chain block number reached in one behaviour.
MaxHeight == 3
\* BridgeContractListener(confirmation_blocks=...): the constructor's
\* parameter (its default is 6), scaled down to keep heights small.
confirmation_blocks == 2

\* ------------------------------------------------------------- constants
destination_chain_id == 80001

Hashes == {"0xAA", "0xBB"}
ChainIds == {destination_chain_id, 1}
\* recipient / amount: 0 stands for a value that is absent or zero (falsy).
ArgValues == {0, 1}

\* A TokensDeposited log as get_new_entries returns it.  blockNumber 0
\* stands for a block number that is 0 or absent (event.get gives None).
\* The logs the source chain emits at height h: a well-formed deposit, or one
\* that is off in a single field (another chain, no recipient, no amount).
EventsAt(h) ==
    {e \in [txHash : Hashes, blockNumber : {0, h},
            destinationChainId : ChainIds, recipient : ArgValues,
            amount : ArgValues] :
        Cardinality({f \in {"d", "r", "a"} :
            \/ f = "d" /\ e.destinationChainId # destination_chain_id
            \/ f = "r" /\ e.recipient = 0
            \/ f = "a" /\ e.amount = 0}) <= 1}

VARIABLES
    height,            \* source chain: web3.eth.block_number
    emitted,           \* source chain: number of logs emitted so far
    event_filter,      \* entries the filter has not delivered yet
    file,              \* the state file processed_events_db.json
    processed_hashes,  \* StateDB.processed_hashes
    pc,                \* position of the process / worker thread
    stop_event,        \* BridgeContractListener.stop_event
    latest_block,      \* run(): latest_block of the current cycle
    events,            \* run(): the batch returned by get_new_entries
    idx,               \* run(): position of the for loop in events
    simulate_only,     \* TransactionBroadcaster.simulate_only
    sent,              \* destination chain: transactions handed to send_raw_transaction
    mined,             \* destination chain: transaction count of the relayer account
    cur,               \* history: the event run() handled last, and how
    deferred,          \* history: events this process run found too recent
    okRun,             \* history: hashes this process run broadcast successfully
    failedRun,         \* history: hashes for which a broadcast of this run returned None
    okBroadcast,       \* history: hashes for which a broadcast returned a hash
    durable,           \* history: hashes written by a completed _save
    boot               \* history: how this run's StateDB._load ended

vars == <<height, emitted, event_filter, file, processed_hashes, pc, stop_event,
          latest_block, events, idx, simulate_only, sent, mined, cur,
          deferred, okRun, failedRun, okBroadcast, durable, boot>>

chainVars == <<height, emitted, event_filter>>
destVars == <<sent, mined>>
loopVars == <<latest_block, events, idx>>
histVars == <<cur, deferred, okRun, failedRun>>

\* ---------------------------------------------------------------- helpers
ToSet(s) == {s[i] : i \in DOMAIN s}

\* ----------------------------------------------------------------- StateDB
AbsentFile == [st |-> "absent", hashes |-> <<>>]
\* A file that open(..., 'w') has truncated and json.dump has not completed.
PartialFile == [st |-> "corrupt", hashes |-> <<>>]
WrittenFile(hashes) == [st |-> "ok", hashes |-> hashes]

\* StateDB._load: no file -> []; a readable file -> its list; a file that
\* json.load cannot parse -> the except branch -> [].
_load(f) ==
    IF f.st = "absent" THEN <<>>
    ELSE IF f.st = "ok" THEN f.hashes
    ELSE <<>>

\* How _load ended, for the record.
LoadOutcome(f) ==
    IF f.st = "absent" THEN "absent"
    ELSE IF f.st = "ok" THEN "ok"
    ELSE "failed"

\* Faulty variant: the membership test never finds the hash.
is_processed_Never(tx_hash, hashes) == FALSE

\* StateDB.is_processed
is_processed(tx_hash, hashes) == \E i \in DOMAIN hashes : hashes[i] = tx_hash

\* Faulty variant: the hash is appended without the membership test.
mark_as_processed_Always(tx_hash, hashes) == Append(hashes, tx_hash)

\* StateDB.mark_as_processed, the in-memory part: the list after the call
\* (_save follows when the hash was appended).
mark_as_processed(tx_hash, hashes) ==
    IF ~is_processed(tx_hash, hashes) THEN Append(hashes, tx_hash) ELSE hashes

\* ---------------------------------------------------------- EventProcessor
\* Faulty variant: the destination chain is not checked.
process_event_NoChainCheck(event, hashes) ==
    IF is_processed(event.txHash, hashes) THEN "processed"
    ELSE IF ~(event.recipient # 0 /\ event.amount # 0) THEN "missing"
    ELSE "prepared"

\* Faulty variant: the replay store is not consulted.
process_event_NoReplayCheck(event, hashes) ==
    IF event.destinationChainId # destination_chain_id THEN "wrong_chain"
    ELSE IF ~(event.recipient # 0 /\ event.amount # 0) THEN "missing"
    ELSE "prepared"

\* Faulty variant: recipient and amount are not checked.
process_event_NoArgCheck(event, hashes) ==
    IF is_processed(event.txHash, hashes) THEN "processed"
    ELSE IF event.destinationChainId # destination_chain_id THEN "wrong_chain"
    ELSE "prepared"

\* process_event: "prepared" is the returned prepared_tx, every other value
\* is a return of None (named after the branch that returned).
process_event(event, hashes) ==
    IF is_processed(event.txHash, hashes) THEN "processed"
    ELSE IF event.destinationChainId # destination_chain_id THEN "wrong_chain"
    ELSE IF ~(event.recipient # 0 /\ event.amount # 0) THEN "missing"
    ELSE "prepared"

\* --------------------------------------------------- TransactionBroadcaster
Outcomes == {"Error", "Submitted", "Confirmed", "Failed", "Timeout"}

\* Faulty variant: the receipt's status is not looked at.
BroadcastReturnsHash_AnyReceipt(outcome) ==
    outcome \in {"Submitted", "Confirmed", "Failed"}

\* broadcast returns a hash (truthy) or None.
BroadcastReturnsHash(outcome) == outcome \in {"Submitted", "Confirmed"}

\* --------------------------------------------------- BridgeContractListener
\* run(): the test that defers an event ("too recent").
TooRecent(event_block, latest) ==
    event_block # 0 /\ (latest - event_block) < confirmation_blocks

\* The record of one event's handling: the event, whether its hash was in
\* the store when the for loop reached it, how the iteration went ("deferred"
\* or the result of process_event), the calls made on the store and the
\* broadcaster, the outcome of broadcast, and whether mark_as_processed
\* has returned.
Entry(e, inStore, res) ==
    [ev |-> e, inStore |-> inStore, res |-> res, calls |-> <<>>,
     out |-> "none", marked |-> FALSE]

NoEvent ==
    [txHash |-> "none", blockNumber |-> 0, destinationChainId |-> 0,
     recipient |-> 0, amount |-> 0]

NoEntry == Entry(NoEvent, FALSE, "none")

TypeOK ==
    /\ height \in 1..MaxHeight
    /\ emitted \in 0..MaxLogs
    /\ pc \in {"loop", "drain", "broadcast", "receipt", "mark", "save_open",
               "save_write", "sleep", "backoff", "stopped", "dead",
               "down", "api"}
    /\ stop_event \in BOOLEAN
    /\ simulate_only \in BOOLEAN
    /\ file.st \in {"absent", "ok", "corrupt"}
    /\ boot \in {"absent", "ok", "failed"}
    /\ okBroadcast \subseteq Hashes
    /\ failedRun \subseteq Hashes
    /\ durable \subseteq Hashes

\* The state after main() has constructed StateDB, the broadcaster and the
\* listener on a fresh installation, and listener.start() has been called.
Init ==
    /\ height = 1
    /\ emitted = 0
    /\ event_filter = <<>>
    /\ file = AbsentFile
    /\ processed_hashes = _load(AbsentFile)
    /\ pc = "loop"
    /\ stop_event = FALSE
    /\ latest_block = 0
    /\ events = <<>>
    /\ idx = 1
    /\ simulate_only \in BOOLEAN
    /\ sent = <<>>
    /\ mined = 0
    /\ cur = NoEntry
    /\ deferred = {}
    /\ okRun = {}
    /\ failedRun = {}
    /\ okBroadcast = {}
    /\ durable = {}
    /\ boot = LoadOutcome(AbsentFile)


\* ------------------------------------------------------------ environment
\* The worker reads the source chain only in its poll (block_number and
\* get_new_entries), so a block or a log that arrives while a cycle is under
\* way is seen exactly as if it arrived once the worker is back at the head
\* of its loop: the chain steps are taken there.
\* The source chain mines a block.
NewBlock ==
    /\ pc = "loop"
    /\ height < MaxHeight
    /\ height' = height + 1
    /\ UNCHANGED <<emitted, event_filter, file, processed_hashes, pc, stop_event,
                   latest_block, events, idx, simulate_only, sent, mined, histVars,
                   okBroadcast, durable, boot>>

\* The bridge contract emits a TokensDeposited log and the node queues it
\* on the listener's filter.
Emit ==
    /\ pc = "loop"
    /\ emitted < MaxLogs
    /\ \E e \in EventsAt(height) : event_filter' = Append(event_filter, e)
    /\ emitted' = emitted + 1
    /\ UNCHANGED <<height, file, processed_hashes, pc, stop_event, latest_block,
                   events, idx, simulate_only, sent, mined, histVars, okBroadcast,
                   durable, boot>>

\* main(): KeyboardInterrupt -> listener.stop(). (Once the worker thread is
\* dead, join returns at once and the process ends: that is Crash.)
Stop ==
    /\ pc \notin {"down", "stopped", "dead", "api"}
    /\ ~stop_event
    /\ stop_event' = TRUE
    /\ UNCHANGED <<chainVars, file, processed_hashes, pc, loopVars,
                   simulate_only, destVars, histVars, okBroadcast, durable, boot>>

\* The operating system kills the process: everything in memory is gone,
\* the file and the two chains stay as they are.
Crash ==
    /\ pc \notin {"down", "stopped"}
    /\ pc' = "down"
    /\ processed_hashes' = <<>>
    /\ stop_event' = FALSE
    /\ latest_block' = 0
    /\ events' = <<>>
    /\ idx' = 1
    /\ event_filter' = <<>>
    /\ cur' = NoEntry
    /\ deferred' = {}
    /\ okRun' = {}
    /\ failedRun' = {}
    /\ UNCHANGED <<height, emitted, file, simulate_only, destVars, okBroadcast,
                   durable, boot>>

\* A new process: main() constructs StateDB(STATE_FILE) (which loads the
\* file), the listener creates its filter from 'latest' and starts.
Restart(start) ==
    /\ pc \in {"down", "stopped"}
    /\ processed_hashes' = _load(file)
    /\ boot' = LoadOutcome(file)
    /\ event_filter' = <<>>
    /\ stop_event' = FALSE
    /\ latest_block' = 0
    /\ events' = <<>>
    /\ idx' = 1
    /\ cur' = NoEntry
    /\ deferred' = {}
    /\ okRun' = {}
    /\ failedRun' = {}
    /\ pc' = start
    /\ UNCHANGED <<height, emitted, file, simulate_only, destVars, okBroadcast,
                   durable>>

\* ------------------------------------------------------------------ run()
\* Faulty variant: the loop condition never ends the loop.
LoopExit_Never ==
    /\ FALSE
    /\ UNCHANGED vars

\* while not self.stop_event.is_set(): the flag is set, run returns.
LoopExit ==
    /\ pc = "loop"
    /\ stop_event
    /\ pc' = "stopped"
    /\ UNCHANGED <<chainVars, file, processed_hashes, stop_event, loopVars,
                   simulate_only, destVars, histVars, okBroadcast, durable, boot>>

\* Faulty variant: a cycle starts whatever the stop flag says.
Poll_IgnoresStop ==
    /\ pc = "loop"
    /\ latest_block' = height
    /\ events' = event_filter
    /\ event_filter' = <<>>
    /\ idx' = 1
    /\ pc' = "drain"
    /\ UNCHANGED <<height, emitted, file, processed_hashes, stop_event,
                   simulate_only, destVars, histVars, okBroadcast, durable, boot>>

\* latest_block = ...block_number; events = self.event_filter.get_new_entries()
Poll ==
    /\ pc = "loop"
    /\ ~stop_event
    /\ latest_block' = height
    /\ events' = event_filter
    /\ event_filter' = <<>>
    /\ idx' = 1
    /\ pc' = "drain"
    /\ UNCHANGED <<height, emitted, file, processed_hashes, stop_event,
                   simulate_only, destVars, histVars, okBroadcast, durable, boot>>

\* except BlockNotFound: a new filter from 'latest' (the old filter and what
\* it had not delivered are gone), then sleep 2 x interval.
PollBlockNotFound ==
    /\ pc = "loop"
    /\ ~stop_event
    /\ event_filter' = <<>>
    /\ pc' = "backoff"
    /\ UNCHANGED <<height, emitted, file, processed_hashes, stop_event, loopVars,
                   simulate_only, destVars, histVars, okBroadcast, durable, boot>>

\* except BlockNotFound, and create_filter raises inside the except clause:
\* no clause of the same try catches it, the exception leaves run() and the
\* worker thread ends while the main thread keeps sleeping. Nothing reads the
\* filter again.
PollBlockNotFoundFails ==
    /\ pc = "loop"
    /\ ~stop_event
    /\ event_filter' = <<>>
    /\ pc' = "dead"
    /\ UNCHANGED <<height, emitted, file, processed_hashes, stop_event, loopVars,
                   simulate_only, destVars, histVars, okBroadcast, durable, boot>>

\* except Exception (an RPC failure of the poll): sleep 2 x interval.
PollError ==
    /\ pc = "loop"
    /\ ~stop_event
    /\ pc' = "backoff"
    /\ UNCHANGED <<chainVars, file, processed_hashes, stop_event, loopVars,
                   simulate_only, destVars, histVars, okBroadcast, durable, boot>>

\* One iteration of "for event in events" up to the call of broadcast: the
\* confirmation test, then process_event.
DrainEvent ==
    /\ pc = "drain"
    /\ idx <= Len(events)
    /\ LET e == events[idx]
           inStore == is_processed(e.txHash, processed_hashes)
       IN IF TooRecent(e.blockNumber, latest_block)
          THEN /\ cur' = Entry(e, inStore, "deferred")
               /\ deferred' = deferred \cup {e}
               /\ idx' = idx + 1
               /\ pc' = "drain"
          ELSE LET res == process_event(e, processed_hashes)
                   ent == [Entry(e, inStore, res) EXCEPT !.calls = <<"is_processed">>]
               IN /\ cur' = ent
                  /\ deferred' = deferred \ {e}
                  /\ IF res = "prepared"
                     THEN pc' = "broadcast" /\ idx' = idx
                     ELSE pc' = "drain" /\ idx' = idx + 1
    /\ UNCHANGED <<chainVars, file, processed_hashes, stop_event, latest_block,
                   events, simulate_only, destVars, okRun, failedRun, okBroadcast, durable,
                   boot>>

\* An exception is raised in the body of the for loop, outside broadcast's
\* own try (process_event indexing a log that lacks 'transactionHash' or
\* 'args', or any other unexpected error): except Exception logs it and
\* sleeps 2 x interval. The filter has already delivered the batch, and the
\* cycle's locals are not read again (the next poll overwrites them).
DrainError ==
    /\ pc = "drain"
    /\ idx <= Len(events)
    /\ pc' = "backoff"
    /\ latest_block' = 0
    /\ events' = <<>>
    /\ idx' = 1
    /\ cur' = NoEntry
    /\ UNCHANGED <<chainVars, file, processed_hashes, stop_event,
                   simulate_only, destVars, deferred, okRun, failedRun,
                   okBroadcast, durable, boot>>

\* The for loop is over: time.sleep(self.poll_interval).
DrainDone ==
    /\ pc = "drain"
    /\ idx > Len(events)
    /\ pc' = "sleep"
    /\ events' = <<>>
    /\ idx' = 1
    /\ cur' = NoEntry
    /\ UNCHANGED <<chainVars, file, processed_hashes, stop_event, latest_block,
                   simulate_only, destVars, deferred, okRun, failedRun, okBroadcast,
                   durable, boot>>

\* time.sleep(self.poll_interval) returns; the cycle's latest_block is not
\* read again (the next poll overwrites it).
SleepDone ==
    /\ pc = "sleep"
    /\ pc' = "loop"
    /\ latest_block' = 0
    /\ UNCHANGED <<chainVars, file, processed_hashes, stop_event, events, idx,
                   simulate_only, destVars, histVars, okBroadcast, durable, boot>>

\* time.sleep(self.poll_interval * 2) returns.
BackoffDone ==
    /\ pc = "backoff"
    /\ pc' = "loop"
    /\ UNCHANGED <<chainVars, file, processed_hashes, stop_event, loopVars,
                   simulate_only, destVars, histVars, okBroadcast, durable, boot>>


\* ------------------------------------------------------------- broadcast()
\* The mint transaction broadcast builds from prepared_tx and the nonce.
\* (original_event is prepared_tx['original_event'], kept for the record.)
MintTx(e, nonce) ==
    [recipient |-> e.recipient, amount |-> e.amount,
     source_tx_hash |-> e.txHash, nonce |-> nonce, original_event |-> e]

\* Faulty variant: after a broadcast that returned None the loop handles the
\* same event again.
BroadcastEnds_Retry(outcome, entry) ==
    /\ cur' = [entry EXCEPT !.out = outcome]
    /\ IF outcome \in {"Submitted", "Confirmed"}
       THEN /\ okBroadcast' = okBroadcast \cup {events[idx].txHash}
            /\ okRun' = okRun \cup {events[idx].txHash}
            /\ UNCHANGED failedRun
       ELSE /\ failedRun' = failedRun \cup {events[idx].txHash}
            /\ UNCHANGED <<okBroadcast, okRun>>
    /\ UNCHANGED deferred
    /\ idx' = idx
    /\ pc' = IF BroadcastReturnsHash(outcome) THEN "mark" ELSE "drain"

\* broadcast has ended with `outcome`; run() goes on to mark_as_processed
\* when the returned value is truthy and to the next event otherwise.
BroadcastEnds(outcome, entry) ==
    /\ cur' = [entry EXCEPT !.out = outcome]
    /\ IF outcome \in {"Submitted", "Confirmed"}
       THEN /\ okBroadcast' = okBroadcast \cup {events[idx].txHash}
            /\ okRun' = okRun \cup {events[idx].txHash}
            /\ UNCHANGED failedRun
       ELSE /\ failedRun' = failedRun \cup {events[idx].txHash}
            /\ UNCHANGED <<okBroadcast, okRun>>
    /\ UNCHANGED deferred
    /\ IF BroadcastReturnsHash(outcome)
       THEN pc' = "mark" /\ idx' = idx
       ELSE pc' = "drain" /\ idx' = idx + 1

\* run() has called broadcast(prepared_tx).
Broadcasting(entry) == [entry EXCEPT !.calls = Append(@, "broadcast")]

\* get_transaction_count, gas_price, build_transaction, sign_transaction or
\* send_raw_transaction raises before anything is submitted: except
\* Exception, return None.
BroadcastError ==
    /\ pc = "broadcast"
    /\ BroadcastEnds("Error", Broadcasting(cur))
    /\ UNCHANGED <<chainVars, file, processed_hashes, stop_event, latest_block,
                   events, simulate_only, destVars, durable, boot>>

\* simulate_only: the signed hash is returned, nothing is sent.
BroadcastSimulate ==
    /\ pc = "broadcast"
    /\ simulate_only
    /\ BroadcastEnds("Submitted", Broadcasting(cur))
    /\ UNCHANGED <<chainVars, file, processed_hashes, stop_event, latest_block,
                   events, simulate_only, destVars, durable, boot>>

\* Faulty variant: the transaction is sent whatever simulate_only says.
BroadcastSend_IgnoresSimulate ==
    /\ pc = "broadcast"
    /\ sent' = Append(sent, [recipient |-> events[idx].recipient,
                             amount |-> events[idx].amount,
                             source_tx_hash |-> events[idx].txHash,
                             nonce |-> mined, original_event |-> events[idx]])
    /\ cur' = [cur EXCEPT !.calls = Append(@, "broadcast")]
    /\ pc' = "receipt"
    /\ UNCHANGED <<chainVars, file, processed_hashes, stop_event, loopVars,
                   simulate_only, mined, deferred, okRun, failedRun, okBroadcast, durable,
                   boot>>

\* Live mode: send_raw_transaction hands the signed transaction to the node.
BroadcastSend ==
    /\ pc = "broadcast"
    /\ ~simulate_only
    /\ sent' = Append(sent, MintTx(events[idx], mined))
    /\ cur' = Broadcasting(cur)
    /\ pc' = "receipt"
    /\ UNCHANGED <<chainVars, file, processed_hashes, stop_event, loopVars,
                   simulate_only, mined, deferred, okRun, failedRun, okBroadcast, durable,
                   boot>>

\* wait_for_transaction_receipt: receipt.status == 1.
ReceiptConfirmed ==
    /\ pc = "receipt"
    /\ mined' = mined + 1
    /\ BroadcastEnds("Confirmed", cur)
    /\ UNCHANGED <<chainVars, file, processed_hashes, stop_event, latest_block,
                   events, simulate_only, sent, durable, boot>>

\* wait_for_transaction_receipt: a receipt whose status is not 1 (revert).
ReceiptFailed ==
    /\ pc = "receipt"
    /\ mined' = mined + 1
    /\ BroadcastEnds("Failed", cur)
    /\ UNCHANGED <<chainVars, file, processed_hashes, stop_event, latest_block,
                   events, simulate_only, sent, durable, boot>>

\* wait_for_transaction_receipt raises TimeExhausted after 120 s: except
\* Exception, return None.  The transaction stays pending.
ReceiptTimeout ==
    /\ pc = "receipt"
    /\ BroadcastEnds("Timeout", cur)
    /\ UNCHANGED <<chainVars, file, processed_hashes, stop_event, latest_block,
                   events, simulate_only, destVars, durable, boot>>

\* ----------------------------------------------- mark_as_processed, _save
\* mark_as_processed returns to its caller: run() (ret = "drain") moves to
\* the next event.
Return(ret) ==
    /\ pc' = ret
    /\ idx' = IF ret = "drain" THEN idx + 1 ELSE idx

Marked(c) == [c EXCEPT !.marked = TRUE]

\* run(): self.event_processor.state_db.mark_as_processed(source_tx_hash)
Mark ==
    /\ pc = "mark"
    /\ LET tx_hash == events[idx].txHash
           called == [cur EXCEPT !.calls = Append(@, "mark_as_processed")]
           appended == mark_as_processed(tx_hash, processed_hashes)
       IN /\ processed_hashes' = appended
          /\ IF appended # processed_hashes
             THEN /\ cur' = called
                  /\ pc' = "save_open"
                  /\ idx' = idx
             ELSE /\ cur' = Marked(called)
                  /\ Return("drain")
    /\ UNCHANGED <<chainVars, file, stop_event, latest_block, events,
                   simulate_only, destVars, deferred, okRun, failedRun, okBroadcast,
                   durable, boot>>

\* _save: open(self.filepath, 'w') succeeds and truncates the file.
SaveOpenOk ==
    /\ pc = "save_open"
    /\ file' = PartialFile
    /\ pc' = "save_write"
    /\ UNCHANGED <<chainVars, processed_hashes, stop_event, loopVars,
                   simulate_only, destVars, histVars, okBroadcast, durable, boot>>

\* _save: open raises IOError (permission, read-only medium); it is logged
\* and mark_as_processed returns normally.
SaveOpenFail(ret) ==
    /\ pc = "save_open"
    /\ cur' = Marked(cur)
    /\ UNCHANGED <<deferred, okRun, failedRun>>
    /\ Return(ret)
    /\ UNCHANGED <<chainVars, file, processed_hashes, stop_event, latest_block,
                   events, simulate_only, destVars, okBroadcast, durable, boot>>

\* _save: json.dump and the close of the file complete.
SaveWriteOk(ret) ==
    /\ pc = "save_write"
    /\ file' = WrittenFile(processed_hashes)
    /\ durable' = ToSet(processed_hashes)
    /\ cur' = Marked(cur)
    /\ UNCHANGED <<deferred, okRun, failedRun>>
    /\ Return(ret)
    /\ UNCHANGED <<chainVars, processed_hashes, stop_event, latest_block,
                   events, simulate_only, destVars, okBroadcast, boot>>

\* _save: the write raises IOError (disk full); it is logged, the file
\* stays truncated or partly written, mark_as_processed returns normally.
SaveWriteFail(ret) ==
    /\ pc = "save_write"
    /\ cur' = Marked(cur)
    /\ UNCHANGED <<deferred, okRun, failedRun>>
    /\ Return(ret)
    /\ UNCHANGED <<chainVars, file, processed_hashes, stop_event, latest_block,
                   events, simulate_only, destVars, okBroadcast, durable, boot>>

Next ==
    \/ NewBlock
    \/ Emit
    \/ Stop
    \/ Crash
    \/ Restart("loop")
    \/ LoopExit
    \/ Poll
    \/ PollBlockNotFound
    \/ PollBlockNotFoundFails
    \/ PollError
    \/ DrainEvent
    \/ DrainError
    \/ DrainDone
    \/ SleepDone
    \/ BackoffDone
    \/ BroadcastError
    \/ BroadcastSimulate
    \/ BroadcastSend
    \/ ReceiptConfirmed
    \/ ReceiptFailed
    \/ ReceiptTimeout
    \/ Mark
    \/ SaveOpenOk
    \/ SaveOpenFail("drain")
    \/ SaveWriteOk("drain")
    \/ SaveWriteFail("drain")

Spec == Init /\ [][Next]_vars

\* ------------------------------------------------------ one process run
\* One run of the process from start-up, not killed from outside.
NextRun ==
    \/ NewBlock
    \/ Emit
    \/ Stop
    \/ LoopExit
    \/ Poll
    \/ PollBlockNotFound
    \/ PollBlockNotFoundFails
    \/ PollError
    \/ DrainEvent
    \/ DrainError
    \/ DrainDone
    \/ SleepDone
    \/ BackoffDone
    \/ BroadcastError
    \/ BroadcastSimulate
    \/ BroadcastSend
    \/ ReceiptConfirmed
    \/ ReceiptFailed
    \/ ReceiptTimeout
    \/ Mark
    \/ SaveOpenOk
    \/ SaveOpenFail("drain")
    \/ SaveWriteOk("drain")
    \/ SaveWriteFail("drain")

\* A step of the worker thread: the return of a chain call, of a file
\* operation or of a sleep, or the test of the loop condition.
WorkerStep ==
    \/ LoopExit
    \/ Poll
    \/ PollBlockNotFound
    \/ PollBlockNotFoundFails
    \/ PollError
    \/ DrainEvent
    \/ DrainError
    \/ DrainDone
    \/ SleepDone
    \/ BackoffDone
    \/ BroadcastError
    \/ BroadcastSimulate
    \/ BroadcastSend
    \/ ReceiptConfirmed
    \/ ReceiptFailed
    \/ ReceiptTimeout
    \/ Mark
    \/ SaveOpenOk
    \/ SaveOpenFail("drain")
    \/ SaveWriteOk("drain")
    \/ SaveWriteFail("drain")

\* The thread is scheduled and every call it makes returns (web3 calls
\* return or raise, wait_for_transaction_receipt has timeout=120, time.sleep
\* returns): the worker takes a step whenever it has one.
SpecRun == Init /\ [][NextRun]_vars /\ WF_vars(WorkerStep)

\* ------------------------------------------------ StateDB used on its own
\* A caller of the StateDB class alone: it calls mark_as_processed with any
\* hash, one call at a time, and the process can be killed and restarted.
InitDB ==
    /\ height = 1
    /\ emitted = 0
    /\ event_filter = <<>>
    /\ file = AbsentFile
    /\ processed_hashes = _load(AbsentFile)
    /\ pc = "api"
    /\ stop_event = FALSE
    /\ latest_block = 0
    /\ events = <<>>
    /\ idx = 1
    /\ simulate_only = TRUE
    /\ sent = <<>>
    /\ mined = 0
    /\ cur = NoEntry
    /\ deferred = {}
    /\ okRun = {}
    /\ failedRun = {}
    /\ okBroadcast = {}
    /\ durable = {}
    /\ boot = LoadOutcome(AbsentFile)

CallEvent(tx_hash) ==
    [txHash |-> tx_hash, blockNumber |-> 0,
     destinationChainId |-> destination_chain_id, recipient |-> 1, amount |-> 1]

\* state_db.mark_as_processed(tx_hash)
CallMark(tx_hash) ==
    /\ pc = "api"
    /\ LET present == is_processed(tx_hash, processed_hashes)
           ent == [Entry(CallEvent(tx_hash), present, "prepared") EXCEPT
                      !.calls = <<"mark_as_processed">>]
           appended == mark_as_processed(tx_hash, processed_hashes)
       IN /\ processed_hashes' = appended
          /\ IF appended # processed_hashes
             THEN /\ cur' = ent
                  /\ pc' = "save_open"
             ELSE /\ cur' = Marked(ent)
                  /\ pc' = "api"
    /\ UNCHANGED <<chainVars, file, stop_event, loopVars, simulate_only,
                   destVars, deferred, okRun, failedRun, okBroadcast, durable, boot>>

NextDB ==
    \/ \E h \in Hashes : CallMark(h)
    \/ SaveOpenOk
    \/ SaveOpenFail("api")
    \/ SaveWriteOk("api")
    \/ SaveWriteFail("api")
    \/ Crash
    \/ Restart("api")

SpecDB == InitDB /\ [][NextDB]_vars


\* ================================================================ claims
OkOutcomes == {"Submitted", "Confirmed"}

Count(x, s) == Cardinality({i \in DOMAIN s : s[i] = x})

NoDuplicates(s) == \A i, j \in DOMAIN s : s[i] = s[j] => i = j

IsPrefix(s, t) == Len(s) <= Len(t) /\ \A i \in DOMAIN s : s[i] = t[i]

\* Number of transactions handed to send_raw_transaction for event e.
Submissions(e) == Cardinality({i \in DOMAIN sent : sent[i].original_event = e})

\* The pipeline has run to its end for the event in cur.
Handled == pc = "drain" /\ cur.res \notin {"none", "deferred"}

\* C1 as stated: when the pipeline has run twice with the same event e (a
\* submission of e exists from an earlier run and the pipeline has now run
\* to its end for e again), the store holds exactly one entry for e's txHash
\* and e was submitted at most once, whatever the broadcasts' outcomes.
C1_AsStated ==
    \A i \in DOMAIN sent :
        LET e == sent[i].original_event
        IN (Handled /\ cur.ev = e /\
            Submissions(e) >= (IF cur.out \in {"Confirmed", "Failed", "Timeout"}
                               THEN 2 ELSE 1))
           => /\ Count(e.txHash, processed_hashes) = 1
              /\ Submissions(e) <= 1

\* C1 (amended): within one process run the store never holds more than one
\* entry for a txHash; once a broadcast for a txHash has ended Confirmed or
\* Submitted, broadcast is not called for that txHash again and, from the
\* return of mark_as_processed on, the store holds exactly one entry for it.
C1_Idempotence ==
    /\ \A h \in Hashes : Count(h, processed_hashes) <= 1
    /\ file.st = "ok" => NoDuplicates(file.hashes)
    /\ pc \in {"broadcast", "receipt"} => cur.ev.txHash \notin okRun
    /\ \A h \in okRun :
          \/ pc = "mark" /\ cur.ev.txHash = h
          \/ Count(h, processed_hashes) = 1

\* The same event was run twice in live mode: confirmed and recorded the
\* first time, skipped as already processed the second time.
C1_Witness ==
    /\ Handled
    /\ cur.res = "processed"
    /\ cur.ev.txHash \in okRun
    /\ Len(sent) = 1
    /\ sent[1].original_event = cur.ev
    /\ Count(cur.ev.txHash, processed_hashes) = 1

\* C2: a txHash is in the replay store (in memory or in the file) only if a
\* broadcast for it ended Confirmed or Submitted, and mark_as_processed is
\* only ever called after such an outcome: never after Failed, Timeout or
\* an error.
C2_CommitPoint ==
    /\ ToSet(processed_hashes) \subseteq okBroadcast
    /\ ToSet(file.hashes) \subseteq okBroadcast
    /\ pc \in {"mark", "save_open", "save_write"} => cur.out \in OkOutcomes
    /\ (cur.marked \/ "mark_as_processed" \in ToSet(cur.calls))
          => cur.out \in OkOutcomes

\* One broadcast was recorded, and the broadcast of another txHash has just
\* ended Failed or Timeout and left no entry.
C2_Witness ==
    /\ pc = "drain"
    /\ cur.out \in {"Failed", "Timeout"}
    /\ ~is_processed(cur.ev.txHash, processed_hashes)
    /\ Len(processed_hashes) = 1

\* C3 as stated: the loop's finality decision equals
\* latest_block - blockNumber >= confirmation_blocks for every event, also
\* one whose blockNumber is 0 or absent: an event is deferred exactly when
\* that is false, and only a final event reaches process_event.
C3_GateAsStated ==
    cur.res # "none" =>
        (cur.res # "deferred"
            <=> latest_block - cur.ev.blockNumber >= confirmation_blocks)

\* C4 as stated: a deferred event is presented again on a later poll, so at
\* the end of every poll cycle no deferred event is left unexamined that the
\* height read in that cycle makes final.
C4_DeferredRepresented ==
    pc = "sleep" =>
        \A e \in deferred : latest_block - e.blockNumber < confirmation_blocks

C6_NoBroadcastIfRecorded ==
    cur.inStore =>
        /\ pc \notin {"broadcast", "receipt", "mark", "save_open", "save_write"}
        /\ "broadcast" \notin ToSet(cur.calls)
        /\ cur.out = "none"

\* A restarted process loaded the hash from the file and skipped an
\* otherwise valid, final event that carries it.
C6_Witness ==
    /\ boot = "ok"
    /\ okRun = {}
    /\ cur.inStore
    /\ cur.res = "processed"
    /\ cur.ev.destinationChainId = destination_chain_id
    /\ cur.ev.recipient # 0 /\ cur.ev.amount # 0
    /\ pc = "drain"

\* C7 as stated: once mark_as_processed(h) has returned, a StateDB freshly
\* constructed on the same file reports is_processed(h).
C7_Durable ==
    cur.marked => is_processed(cur.ev.txHash, _load(file))

\* C8 as stated: whenever the process is dead, the StateDB the next process
\* constructs on the file contains every hash a completed write had recorded.
C8_AllOrNothing ==
    pc = "down" => durable \subseteq ToSet(_load(file))

\* C9 as stated: a process whose StateDB could not read or parse an existing
\* file does not start (only an absent file gives an empty store).
C9_ReadFailureFatal ==
    boot = "failed" => pc = "down"

\* C10: within a process run every mark_as_processed call leaves the earlier
\* entries in place (the list only grows, at its end), no hash appears twice,
\* and a call with a hash that is already present changes neither the list
\* in memory nor the file.
C10_AppendOnly ==
    [][(pc # "down" /\ pc' # "down") =>
          /\ IsPrefix(processed_hashes, processed_hashes')
          /\ NoDuplicates(processed_hashes')
          /\ \A h \in Hashes :
                (pc = "api" /\ cur' = Marked([Entry(CallEvent(h), TRUE, "prepared")
                                   EXCEPT !.calls = <<"mark_as_processed">>]))
                    => processed_hashes' = processed_hashes /\ file' = file]_vars

\* mark_as_processed was called with a hash that was already present and
\* returned with the list and the file as they were.
C10_Witness ==
    /\ pc = "api"
    /\ cur.inStore
    /\ cur.marked
    /\ Len(processed_hashes) = 2
    /\ file = WrittenFile(processed_hashes)


C12_SimulateMode ==
    simulate_only =>
        /\ sent = <<>>
        /\ mined = 0
        /\ pc # "receipt"
        /\ cur.out \in {"none", "Error", "Submitted"}
        /\ cur.out = "Submitted" =>
              \/ pc = "mark"
              \/ is_processed(cur.ev.txHash, processed_hashes)

\* A simulated broadcast ended Submitted and mark_as_processed has returned
\* with the hash in the store, with nothing sent.
C12_Witness ==
    /\ simulate_only
    /\ cur.out = "Submitted"
    /\ cur.marked
    /\ is_processed(cur.ev.txHash, processed_hashes)
    /\ sent = <<>>


BadOutcomes == {"Failed", "Timeout", "Error"}

\* C13 as stated: when an exception sends the loop from the for loop to the
\* error backoff, every event of the batch after the one being handled is
\* still pending in the filter, so that a later poll delivers it.
C13_AsStated ==
    [][(pc = "drain" /\ pc' = "backoff")
          => \A i \in (idx + 1)..Len(events) :
                \E j \in DOMAIN event_filter' : event_filter'[j] = events[i]]_vars

\* C14 as stated: after a broadcast ended Failed, Timeout or Error the loop
\* has moved on to the next entry of the batch without a second call of
\* broadcast and without mark_as_processed, and the hash of an event whose
\* broadcast ended so in this run is not in the store.
C14_AsStated ==
    /\ cur.out \in BadOutcomes =>
          /\ pc = "drain"
          /\ idx >= 2 /\ events[idx - 1] = cur.ev
          /\ Count("broadcast", cur.calls) = 1
          /\ "mark_as_processed" \notin ToSet(cur.calls)
    /\ \A h \in failedRun : ~is_processed(h, processed_hashes)

\* C14: after a broadcast ended Failed, Timeout or Error the loop has moved
\* on to the next entry of the batch without a second call of broadcast and
\* without mark_as_processed; the hash of an event whose broadcast ended so
\* in this run is in the store only if a broadcast for another event with
\* the same hash succeeded later in the run.
C14_NoResubmission ==
    /\ cur.out \in BadOutcomes =>
          /\ pc = "drain"
          /\ idx >= 2 /\ events[idx - 1] = cur.ev
          /\ Count("broadcast", cur.calls) = 1
          /\ "mark_as_processed" \notin ToSet(cur.calls)
    /\ \A h \in failedRun : is_processed(h, processed_hashes) => h \in okRun

\* A live broadcast timed out, the for loop is past the event with nothing
\* left in the batch, and the hash is not in the store.
C14_Witness ==
    /\ cur.out = "Timeout"
    /\ pc = "drain"
    /\ idx > Len(events)
    /\ cur.ev.txHash \in failedRun
    /\ ~is_processed(cur.ev.txHash, processed_hashes)

\* C15 as stated: no two different transactions handed to
\* send_raw_transaction carry the same nonce.
C15_NoNonceCollision ==
    \A i, j \in DOMAIN sent :
        sent[i] # sent[j] => sent[i].nonce # sent[j].nonce

\* C16: with the stop flag set, the worker at the head of its loop does not
\* poll, run() returns only from the head of the loop, a broadcast in flight
\* goes on to its outcome, and a successful one to mark_as_processed and
\* _save.
C16_CooperativeStop ==
    [][stop_event =>
          /\ pc = "loop" => pc' \in {"loop", "stopped", "down"}
          /\ pc' = "stopped" => pc = "loop"
          /\ pc \in {"broadcast", "receipt"}
                => pc' \in {"receipt", "mark", "drain", "down"}
          /\ pc = "mark" => pc' \in {"save_open", "drain", "down"}
          /\ pc = "mark" => is_processed(cur.ev.txHash, processed_hashes')
                               \/ pc' = "down"]_vars

\* The flag is set and a live broadcast that ended Confirmed is about to be
\* recorded.
C16_Witness ==
    /\ stop_event
    /\ pc = "mark"
    /\ cur.out = "Confirmed"

\* C17 as stated: run() has ended only if the stop flag is set.
C17_EndsOnlyOnStop ==
    pc \in {"stopped", "dead"} => stop_event

\* C18 as stated: a poll that raises BlockNotFound leaves the loop in its
\* backoff sleep with a new, empty filter; any other failure leaves the
\* filter and its pending entries alone.
C18_AsStated ==
    [][/\ (PollBlockNotFound \/ PollBlockNotFoundFails)
              => (pc' = "backoff" /\ event_filter' = <<>>)
       /\ (pc' = "backoff" /\ ~PollBlockNotFound)
              => event_filter' = event_filter]_vars

\* C19: a final event whose txHash is in the store when it is handled is
\* skipped as already processed after the one is_processed test, whatever
\* its chain id, recipient and amount; broadcast is not called for it.
C19_ReplayKeyIsTxHash ==
    (cur.res \notin {"none", "deferred"} /\ cur.inStore)
        => /\ cur.res = "processed"
           /\ cur.calls = <<"is_processed">>
           /\ cur.out = "none"
           /\ ~cur.marked
           /\ pc = "drain"

\* A first event was sent and recorded in this run, and a different event
\* with the same txHash, valid in itself, was skipped.
C19_Witness ==
    /\ cur.res = "processed"
    /\ cur.ev.txHash \in okRun
    /\ cur.ev.destinationChainId = destination_chain_id
    /\ cur.ev.recipient # 0 /\ cur.ev.amount # 0
    /\ \E i \in DOMAIN sent :
          /\ sent[i].source_tx_hash = cur.ev.txHash
          /\ sent[i].original_event # cur.ev

\* C20: once stop() has set the flag, run() returns, whatever the worker was
\* doing, and the flag stays set.
C20_StopLiveness ==
    /\ stop_event ~> pc = "stopped"
    /\ [][stop_event => stop_event']_vars

\* stop() was called while the worker was in its error backoff sleep.
C20_Witness ==
    /\ stop_event
    /\ pc = "backoff"

====
